---- MODULE Spec2Model ----
(***************************************************************************)
(* ShopBotJog (src/src/shopbotjog): analysis of a .sbp file's cutting      *)
(* moves, selection of the feed height, and the rewrite of the file with   *)
(* its backup.                                                             *)
(*                                                                         *)
(* Heights and coordinates are the file's decimal numbers scaled to        *)
(* integers (the code compares them with ==, >= and sorts them; nothing    *)
(* here depends on a fraction).  A file is the sequence of its lines, a    *)
(* line is its opcode token, its numeric fields and, on a header line, the *)
(* file name it carries.  An optional value is a sequence of length 0      *)
(* (Python's None) or 1.                                                   *)
(*                                                                         *)
(* The patterns, strip(), float(), the text-mode newline translation and   *)
(* the speed declarations are modelled on the characters of a file, in     *)
(* the variable text and the specifications SpecText and SpecRates; the    *)
(* lines of the directory model are what ParseLine makes of such text.     *)
(***************************************************************************)
EXTENDS Integers, Sequences, FiniteSets, TLC

\* ---- bounds of the model
MaxLines == 3      \* lines of an input file
MaxClock == 2      \* seconds the wall clock runs through
MaxCalls == 2      \* entry-point calls in one behaviour
MaxZ == 2          \* largest height (scaled) of a cutting move
MaxCuts == 4       \* lines of a file handed to the analysis alone
MaxTextLines == 2  \* lines of a file taken as text
MaxRateLines == 3  \* lines of a file of cutting moves and speed declarations
MaxSavingsLines == 3 \* lines of a file of cutting moves between the corners
MaxSniffLines == 2   \* lines of a file after its filler, handed to the validator
MaxFormLines == 2    \* lines of a file of cutting moves in every form

None == <<>>
Some(x) == <<x>>
IsSome(o) == o # <<>>
Val(o) == o[1]

\* ---- lines
\* text: the file name a header line carries, "" on every other line
M3Line(x, y, z) == [op |-> "M3", args |-> <<x, y, z>>, text |-> ""]
CommentLine == [op |-> "'", args |-> <<>>, text |-> ""]

\* re.compile(r"^M3,\s*([\d.-]+),\s*([\d.-]+),\s*([\d.-]+)$").match(line.strip()):
\* the opcode M3 at the start and exactly three numeric fields.
m3_match(line) == line.op = "M3" /\ Len(line.args) = 3

\* match.groups() -> float(z)
ZOf(line) == line.args[3]

\* ---- _analyze_positioning_heights
RECURSIVE CountOf(_, _)
CountOf(zs, z) ==
    IF zs = <<>> THEN 0
    ELSE (IF Head(zs) = z THEN 1 ELSE 0) + CountOf(Tail(zs), z)

\* Counter(z_values)
Counter(zs) == [z \in {zs[i] : i \in DOMAIN zs} |-> CountOf(zs, z)]

\* the sort key (x[1], x[0]) of a (z, count) pair, compared as Python compares tuples
KeyLess(a, b) == a[2] < b[2] \/ (a[2] = b[2] /\ a[1] < b[1])

\* list.sort(key=lambda x: (x[1], x[0]), reverse=True)
RECURSIVE SortDesc(_)
SortDesc(S) ==
    IF S = {} THEN <<>>
    ELSE LET top == CHOOSE a \in S : \A b \in S : ~KeyLess(a, b)
         IN  <<top>> \o SortDesc(S \ {top})

\* [(z, count) for z, count in z_counter.items() if z >= 0 and count >= 2]
NoSafetyPositiveHeights(z_counter) ==
    {<<z, z_counter[z]>> : z \in {h \in DOMAIN z_counter : z_counter[h] >= 2}}

PositiveHeights(z_counter) ==
    {<<z, z_counter[z]>> : z \in {h \in DOMAIN z_counter : h >= 0 /\ z_counter[h] >= 2}}

\* the sort without reverse=True: the least frequent, lowest candidate comes first
AscendingFeedChoice(sorted) == sorted[Len(sorted)]

\* positive_heights[0]
FeedChoice(sorted) == sorted[1]

analyze_positioning_heights(z_values) ==
    LET z_counter == Counter(z_values)
        positive_heights == PositiveHeights(z_counter)
        sorted == SortDesc(positive_heights)
    IN  IF positive_heights # {}
        THEN [z_counter |-> z_counter,
              feed_height |-> Some(FeedChoice(sorted)[1]),
              positioning_heights |-> <<FeedChoice(sorted)>>]
        ELSE [z_counter |-> z_counter,
              feed_height |-> None,
              positioning_heights |-> <<>>]

\* ---- analyze_file, from the lines read (the path checks are in the callers below)
RECURSIVE ZValues(_)
ZValues(lines) ==
    IF lines = <<>> THEN <<>>
    ELSE (IF m3_match(Head(lines)) THEN <<ZOf(Head(lines))>> ELSE <<>>)
         \o ZValues(Tail(lines))

NoAnalysis ==
    [error |-> "", total_lines |-> 0, m3_commands |-> 0, z_values |-> <<>>,
     z_counter |-> <<>>, feed_height |-> None, positioning_heights |-> <<>>]

analyze_lines(lines) ==
    LET z_values == ZValues(lines)
        pa == analyze_positioning_heights(z_values)
    IN  IF z_values = <<>>
        THEN [NoAnalysis EXCEPT !.error = "No M3 commands found in file",
                                !.total_lines = Len(lines)]
        ELSE [error |-> "", total_lines |-> Len(lines),
              m3_commands |-> Len(z_values), z_values |-> z_values,
              z_counter |-> pa.z_counter, feed_height |-> pa.feed_height,
              positioning_heights |-> pa.positioning_heights]

\* ---- paths and the file system
\* A path is a base name and a stamp: stamp 0 is the file itself, stamp t > 0 is
\* f"{name}.{timestamp}.backup" for the second t.
Bases == {"a.sbp", "o.sbp", "b.txt"}
Path(b) == [base |-> b, stamp |-> 0]
UserPaths == {Path(b) : b \in Bases}
AllPaths == [base : Bases, stamp : 0..MaxClock]
BackupPaths == {p \in AllPaths : p.stamp # 0}

\* file_path.suffix.lower()
Suffix(p) ==
    IF p.stamp # 0 THEN ".backup"
    ELSE IF p.base = "b.txt" THEN ".txt" ELSE ".sbp"

\* datetime.now().strftime("%Y%m%d_%H%M%S"): one stamp per second
\* input_path.parent / f"{input_path.name}.{timestamp}.backup"
BackupPathOf(input_path, now) == [base |-> input_path.base, stamp |-> now]

Exists(f, p) == IsSome(f[p])
Content(f, p) == Val(f[p])

\* a copy that is never made
NoCopy(f, src, dst) == f

\* shutil.copy2(src, dst)
CopyFile(f, src, dst) == [f EXCEPT ![dst] = f[src]]

\* open(path, "w"): the file is created or truncated
Truncate(f, p) == [f EXCEPT ![p] = Some(<<>>)]

WriteFile(f, p, lines) == [f EXCEPT ![p] = Some(lines)]

Prefixes(s) == {SubSeq(s, 1, k) : k \in 0..(Len(s) - 1)}

\* ---- process_file: the pieces
\* every call treated as in-place
AlwaysInPlace(output_path) == TRUE

\* in_place_modification = output_path is None
InPlaceModification(output_path) == output_path = None

\* the check left out
NeverMissing(heights) == FALSE

\* if not positioning_heights:
HeightsMissing(heights) == heights = <<>>

\* the failed backup ignored: the rewrite goes on
SwallowBackupOSError == "ip_read"

\* except OSError as e: return {"error": f"Failed to create backup: {e}"}
OnBackupOSError == "returned"

\* [h for h, _ in heights_data]
HeightsOf(pairs) == [i \in DOMAIN pairs |-> pairs[i][1]]

\* a height made up when none is given and none is detected
DefaultedHeights(analysis, positioning_heights, retract_height) ==
    IF positioning_heights = None
    THEN IF retract_height # None
         THEN <<Val(retract_height)>>
         ELSE IF analysis.positioning_heights = <<>>
              THEN <<0>>
              ELSE HeightsOf(analysis.positioning_heights)
    ELSE Val(positioning_heights)

\* the "Determine positioning heights" block
DetermineHeights(analysis, positioning_heights, retract_height) ==
    IF positioning_heights = None
    THEN IF retract_height # None
         THEN <<Val(retract_height)>>
         ELSE HeightsOf(analysis.positioning_heights)
    ELSE Val(positioning_heights)

InHeights(z, heights) == \E i \in DOMAIN heights : heights[i] = z

\* sorted(positioning_heights, reverse=True)
RECURSIVE SortedDesc(_)
SortedDesc(hs) ==
    IF hs = <<>> THEN <<>>
    ELSE LET i == CHOOSE k \in DOMAIN hs : \A j \in DOMAIN hs : hs[k] >= hs[j]
         IN  <<hs[i]>> \o SortedDesc([k \in 1..(Len(hs) - 1) |->
                                        IF k < i THEN hs[k] ELSE hs[k + 1]])

\* the header left out
NoHeader(heights, input_path) == <<>>

\* the five header lines
Header(heights, input_path) ==
    << [op |-> "' File modified by ShopBotJog v", args |-> <<>>, text |-> ""],
       IF Len(heights) = 1
       THEN [op |-> "' Feed height detected as: ", args |-> <<heights[1]>>, text |-> ""]
       ELSE [op |-> "' Feed heights detected as: ", args |-> SortedDesc(heights), text |-> ""],
       [op |-> "' M3 commands at feed height converted to J3 for rapid jogging",
        args |-> <<>>, text |-> ""],
       [op |-> "' Original file: ", args |-> <<>>, text |-> input_path.base],
       [op |-> "", args |-> <<>>, text |-> ""] >>

\* the line is rewritten when it matches and float(z) in positioning_heights
Converts(line, heights) == m3_match(line) /\ InHeights(ZOf(line), heights)

\* line_stripped.replace("M3,", "J3,", 1) + "\n", or the original line
RewriteLine(line, heights) ==
    IF Converts(line, heights) THEN [line EXCEPT !.op = "J3"] ELSE line

RewriteLines(lines, heights) == [i \in DOMAIN lines |-> RewriteLine(lines[i], heights)]

Modifications(lines, heights) ==
    Cardinality({i \in DOMAIN lines : Converts(lines[i], heights)})

\* ---- the text of a line: its characters, as the file holds them
\* A text is a sequence of one-character strings.  The numbers of the model are
\* whole: where a fraction is written its digits are zeros.
Digits == {"0", "1", "2", "3", "4", "5", "6", "7", "8", "9"}
DigitVal(c) == CHOOSE n \in 0..9 : <<"0", "1", "2", "3", "4", "5", "6", "7", "8", "9">>[n + 1] = c

\* what str.strip() removes and \s matches
Whitespace == {" ", "\t", "\n", "\r"}

\* [\d.-]
NumChars == Digits \cup {".", "-"}

StartsWith(s, p) == Len(s) >= Len(p) /\ SubSeq(s, 1, Len(p)) = p
Drop(s, n) == SubSeq(s, n + 1, Len(s))

\* the length of the longest prefix of s made of characters of C
RECURSIVE Span(_, _)
Span(s, C) == IF s # <<>> /\ Head(s) \in C THEN 1 + Span(Tail(s), C) ELSE 0

RECURSIVE rstrip(_)
rstrip(s) ==
    IF s # <<>> /\ s[Len(s)] \in Whitespace THEN rstrip(SubSeq(s, 1, Len(s) - 1)) ELSE s

\* line.strip()
strip(s) == rstrip(Drop(s, Span(s, Whitespace)))

\* \s*([\d.-]+): the group is greedy, and what follows it in the patterns (a comma,
\* the end) is outside the class, so the longest run is the only candidate
Field(s) ==
    LET t == Drop(s, Span(s, Whitespace))
        n == Span(t, NumChars)
    IN  [group |-> SubSeq(t, 1, n), rest |-> Drop(t, n)]

\* m3_pattern.match(s): None, or match.groups(); $ is the end or a last "\n"
m3_pattern(s) ==
    IF ~StartsWith(s, <<"M", "3", ",">>) THEN None
    ELSE LET x == Field(Drop(s, 3))
         IN  IF x.group = <<>> \/ ~StartsWith(x.rest, <<",">>) THEN None
             ELSE LET y == Field(Drop(x.rest, 1))
                  IN  IF y.group = <<>> \/ ~StartsWith(y.rest, <<",">>) THEN None
                      ELSE LET z == Field(Drop(y.rest, 1))
                           IN  IF z.group = <<>> \/ z.rest \notin {<<>>, <<"\n">>}
                               THEN None
                               ELSE Some(<<x.group, y.group, z.group>>)

\* ms_pattern.match(s), js_pattern.match(s): None, or the first group (the XY rate);
\* the patterns have no $, whatever follows the first group is accepted
speed_pattern(opcode, s) ==
    IF ~StartsWith(s, opcode \o <<",">>) THEN None
    ELSE LET xy == Field(Drop(s, Len(opcode) + 1))
         IN  IF xy.group = <<>> THEN None ELSE Some(xy.group)

ms_pattern(s) == speed_pattern(<<"M", "S">>, s)
js_pattern(s) == speed_pattern(<<"J", "S">>, s)

\* float(tok) of a token of [\d.-]+ returns: an optional leading "-", then digits
\* with at most one "." and at least one digit; on any other token it raises ValueError
IsFloat(tok) ==
    LET body == IF tok # <<>> /\ Head(tok) = "-" THEN Tail(tok) ELSE tok
    IN  /\ \A i \in DOMAIN body : body[i] \in Digits \cup {"."}
        /\ Cardinality({i \in DOMAIN body : body[i] = "."}) <= 1
        /\ \E i \in DOMAIN body : body[i] \in Digits

RECURSIVE IntVal(_)
IntVal(ds) ==
    IF ds = <<>> THEN 0
    ELSE 10 * IntVal(SubSeq(ds, 1, Len(ds) - 1)) + DigitVal(ds[Len(ds)])

\* float(tok), for a token float() accepts
float(tok) ==
    LET negative == tok # <<>> /\ Head(tok) = "-"
        body == IF negative THEN Tail(tok) ELSE tok
        whole == IntVal(SubSeq(body, 1, Span(body, Digits)))
    IN  IF negative THEN 0 - whole ELSE whole

\* ---- text files: open(path, encoding="utf-8") reads and writes in text mode
\* reading translates "\r\n" and "\r" to "\n" (universal newlines)
\* (a "\n" right after a "\r" is dropped, every "\r" becomes "\n")
UniversalNewlines(b) ==
    LET after == [i \in DOMAIN b |-> <<b[i], IF i > 1 THEN b[i - 1] ELSE "">>]
        kept == SelectSeq(after, LAMBDA c : ~(c[1] = "\n" /\ c[2] = "\r"))
    IN  [i \in DOMAIN kept |-> IF kept[i][1] = "\r" THEN "\n" ELSE kept[i][1]]

\* the end of the first line of s: the position of its "\n", or the end of s
LineEnd(s) ==
    IF \E i \in DOMAIN s : s[i] = "\n"
    THEN CHOOSE i \in DOMAIN s : s[i] = "\n" /\ \A j \in 1..(i - 1) : s[j] # "\n"
    ELSE Len(s)

\* the lines of a text, each with its "\n" (the last one may have none)
RECURSIVE SplitLines(_)
SplitLines(s) ==
    IF s = <<>> THEN <<>>
    ELSE <<SubSeq(s, 1, LineEnd(s))>> \o SplitLines(Drop(s, LineEnd(s)))

\* for line in f / f.readlines()
ReadLines(b) == SplitLines(UniversalNewlines(b))

\* writing translates "\n" to os.linesep
RECURSIVE WriteText(_, _)
WriteText(s, linesep) ==
    IF s = <<>> THEN <<>>
    ELSE IF Len(s) = 1 THEN (IF s[1] = "\n" THEN linesep ELSE s)
    ELSE WriteText(SubSeq(s, 1, Len(s) \div 2), linesep)
         \o WriteText(SubSeq(s, Len(s) \div 2 + 1, Len(s)), linesep)

RECURSIVE Concat(_)
Concat(ss) == IF ss = <<>> THEN <<>> ELSE Head(ss) \o Concat(Tail(ss))

\* ---- a line of text, as analyze_file and the rewrite loop take it
\* one of the float() calls on the groups of the pattern the line matches raises
LineRaises(line) ==
    LET s == strip(line)
    IN  IF m3_pattern(s) # None
        THEN \E i \in 1..3 : ~IsFloat(Val(m3_pattern(s))[i])
        ELSE IF ms_pattern(s) # None THEN ~IsFloat(Val(ms_pattern(s)))
        ELSE IF js_pattern(s) # None THEN ~IsFloat(Val(js_pattern(s)))
        ELSE FALSE

SpeedLine(opcode, xy_speed) == [op |-> opcode, args |-> <<xy_speed>>, text |-> ""]

\* what the loop of analyze_file makes of a line: a cutting move, a speed
\* declaration, or a line it passes over
ParseLine(line) ==
    LET s == strip(line)
    IN  IF m3_pattern(s) # None
        THEN LET g == Val(m3_pattern(s)) IN M3Line(float(g[1]), float(g[2]), float(g[3]))
        ELSE IF ms_pattern(s) # None THEN SpeedLine("MS", float(Val(ms_pattern(s))))
        ELSE IF js_pattern(s) # None THEN SpeedLine("JS", float(Val(js_pattern(s))))
        ELSE CommentLine

ParseLines(lines) == [i \in DOMAIN lines |-> ParseLine(lines[i])]

\* the string with nothing replaced
ReplaceNone(s, old, new) == s

\* str.replace(old, new, 1)
RECURSIVE ReplaceFirst(_, _, _)
ReplaceFirst(s, old, new) ==
    IF Len(s) < Len(old) THEN s
    ELSE IF StartsWith(s, old) THEN new \o Drop(s, Len(old))
    ELSE <<Head(s)>> \o ReplaceFirst(Tail(s), old, new)

\* match and float(z) in positioning_heights, on the text of the line
ConvertsText(line, heights) ==
    /\ m3_pattern(strip(line)) # None
    /\ InHeights(float(Val(m3_pattern(strip(line)))[3]), heights)

\* line_stripped.replace("M3,", "J3,", 1) + "\n", or original_line
RewriteText(line, heights) ==
    IF ConvertsText(line, heights)
    THEN ReplaceFirst(strip(line), <<"M", "3", ",">>, <<"J", "3", ",">>) \o <<"\n">>
    ELSE line

\* ---- the header, as the characters written
\* str(h) of a float and f"{h:.4f}", for the whole numbers of the model
DigitChar(n) == <<"0", "1", "2", "3", "4", "5", "6", "7", "8", "9">>[n + 1]
FloatStr(h) ==
    (IF h < 0 THEN <<"-", DigitChar(0 - h)>> ELSE <<DigitChar(h)>>) \o <<".", "0">>
Fixed4(h) == FloatStr(h) \o <<"0", "0", "0">>

\* ", ".join(strs)
RECURSIVE Join(_)
Join(strs) ==
    IF Len(strs) <= 1 THEN Concat(strs)
    ELSE Head(strs) \o <<",", " ">> \o Join(Tail(strs))

\* the five header lines written before the lines of the file
HeaderText(heights, name) ==
    <<"'", " ", "F", "i", "l", "e", " ", "m", "o", "d", "i", "f", "i", "e", "d", " ",
      "b", "y", " ", "S", "h", "o", "p", "B", "o", "t", "J", "o", "g", " ", "v", "0",
      ".", "1", ".", "0">>
    \o <<"\n">>
    \o (IF Len(heights) = 1
        THEN <<"'", " ", "F", "e", "e", "d", " ", "h", "e", "i", "g", "h", "t", " ",
               "d", "e", "t", "e", "c", "t", "e", "d", " ", "a", "s", ":", " ">>
             \o FloatStr(heights[1])
        ELSE <<"'", " ", "F", "e", "e", "d", " ", "h", "e", "i", "g", "h", "t", "s",
               " ", "d", "e", "t", "e", "c", "t", "e", "d", " ", "a", "s", ":", " ">>
             \o Join([i \in DOMAIN heights |-> Fixed4(SortedDesc(heights)[i])]))
    \o <<"\n">>
    \o <<"'", " ", "M", "3", " ", "c", "o", "m", "m", "a", "n", "d", "s", " ", "a",
         "t", " ", "f", "e", "e", "d", " ", "h", "e", "i", "g", "h", "t", " ", "c",
         "o", "n", "v", "e", "r", "t", "e", "d", " ", "t", "o", " ", "J", "3", " ",
         "f", "o", "r", " ", "r", "a", "p", "i", "d", " ", "j", "o", "g", "g", "i",
         "n", "g">>
    \o <<"\n">>
    \o <<"'", " ", "O", "r", "i", "g", "i", "n", "a", "l", " ", "f", "i", "l", "e",
         ":", " ">>
    \o name \o <<"\n">>
    \o <<"\n">>

\* ---- analyze_file: the speeds, the statistics, the report
\* the defaults of __init__, in inches per minute
cutting_speed_ipm == 60
jog_speed_ipm == 300

\* detected = float(xy_speed) * 60 at every declaration of the kind, in file order
RECURSIVE DetectSpeed(_, _, _)
DetectSpeed(lines, opcode, detected) ==
    IF lines = <<>> THEN detected
    ELSE DetectSpeed(Tail(lines), opcode,
                     IF Head(lines).op = opcode
                     THEN Some(Head(lines).args[1] * 60) ELSE detected)

\* the declared rate ignored
ConfiguredSpeed(detected, configured) == configured

\* detected if detected is not None else configured
ActualSpeed(detected, configured) ==
    IF detected # None THEN Val(detected) ELSE configured

\* a float that is a quotient, kept as the fraction num/den
Ratio(n, d) == [num |-> n, den |-> d]

\* every cutting move counted as a positioning move
AllCommands(z_values, heights) == Len(z_values)

\* sum(1 for z in z_values if z in heights_set)
PositioningCommands(z_values, heights) ==
    Cardinality({i \in DOMAIN z_values : InHeights(z_values[i], heights)})

calculate_conversion_stats(z_values, positioning_heights) ==
    IF positioning_heights = <<>>
    THEN [total_m3_commands |-> Len(z_values),
          positioning_commands |-> 0,
          cutting_commands |-> Len(z_values),
          conversion_percentage |-> Ratio(0, 1),
          heights_to_convert |-> <<>>]
    ELSE LET positioning_commands ==
                 PositioningCommands(z_values, HeightsOf(positioning_heights))
         IN  [total_m3_commands |-> Len(z_values),
              positioning_commands |-> positioning_commands,
              cutting_commands |-> Len(z_values) - positioning_commands,
              conversion_percentage |->
                  IF z_values # <<>>
                  THEN Ratio(positioning_commands * 100, Len(z_values))
                  ELSE Ratio(0, 1),
              heights_to_convert |-> HeightsOf(positioning_heights)]

\* _calculate_time_savings divides by the rates and raises ZeroDivisionError:
\* jog_speed / cutting_speed on every path, total_distance / jog_speed once there
\* are two positioning moves
TimeSavingsRaises(z_values, positioning_heights, cutting_speed, jog_speed) ==
    \/ cutting_speed = 0
    \/ /\ jog_speed = 0
       /\ positioning_heights # <<>>
       /\ PositioningCommands(z_values, HeightsOf(positioning_heights)) > 1

\* m3_coordinates: (float(x), float(y), float(z)) of every cutting move, in file order
RECURSIVE M3Coordinates(_)
M3Coordinates(lines) ==
    IF lines = <<>> THEN <<>>
    ELSE (IF m3_match(Head(lines)) THEN <<Head(lines).args>> ELSE <<>>)
         \o M3Coordinates(Tail(lines))

\* every cutting move taken for a positioning move, whatever its height
AllCoordinates(m3_coordinates, heights) == m3_coordinates

\* [(x, y, z) for x, y, z in m3_coordinates if z in heights_set]
RECURSIVE PositioningCoordinates(_, _)
PositioningCoordinates(m3_coordinates, heights) ==
    IF m3_coordinates = <<>> THEN <<>>
    ELSE (IF InHeights(Head(m3_coordinates)[3], heights)
          THEN <<Head(m3_coordinates)>> ELSE <<>>)
         \o PositioningCoordinates(Tail(m3_coordinates), heights)

\* n ** 0.5: the points of the model lie on the corners of a 3 by 4 rectangle, so
\* n is 0, 9, 16 or 25 and the root is whole and exact
Sqrt(n) == CHOOSE r \in 0..n : r * r <= n /\ n < (r + 1) * (r + 1)

\* ((x2 - x1) ** 2 + (y2 - y1) ** 2) ** 0.5
Distance(a, b) == Sqrt((b[1] - a[1]) * (b[1] - a[1]) + (b[2] - a[2]) * (b[2] - a[2]))

\* the loop over range(1, len(positioning_coordinates))
RECURSIVE TotalDistance(_)
TotalDistance(coords) ==
    IF Len(coords) <= 1 THEN 0
    ELSE Distance(coords[1], coords[2]) + TotalDistance(Tail(coords))

\* a - b of two quotients
RatioMinus(a, b) == Ratio(a.num * b.den - b.num * a.den, a.den * b.den)

\* _calculate_time_savings, where it does not raise
calculate_time_savings(m3_coordinates, positioning_heights, cutting_speed, jog_speed) ==
    LET positioning_coordinates ==
            PositioningCoordinates(m3_coordinates, HeightsOf(positioning_heights))
        total_distance == TotalDistance(positioning_coordinates)
        num_moves == Len(positioning_coordinates) - 1
    IN  IF positioning_heights = <<>> \/ m3_coordinates = <<>>
        THEN [positioning_commands |-> 0,
              avg_move_distance |-> Ratio(0, 1), total_move_distance |-> 0,
              time_at_cutting_speed |-> Ratio(0, 1), time_at_jog_speed |-> Ratio(0, 1),
              time_saved_minutes |-> Ratio(0, 1),
              speed_improvement_factor |-> Ratio(jog_speed, cutting_speed)]
        ELSE IF Len(positioning_coordinates) <= 1
        THEN [positioning_commands |-> Len(positioning_coordinates),
              avg_move_distance |-> Ratio(0, 1), total_move_distance |-> 0,
              time_at_cutting_speed |-> Ratio(0, 1), time_at_jog_speed |-> Ratio(0, 1),
              time_saved_minutes |-> Ratio(0, 1),
              speed_improvement_factor |-> Ratio(jog_speed, cutting_speed)]
        ELSE [positioning_commands |-> Len(positioning_coordinates),
              avg_move_distance |->
                  IF num_moves > 0 THEN Ratio(total_distance, num_moves) ELSE Ratio(0, 1),
              total_move_distance |-> total_distance,
              time_at_cutting_speed |-> Ratio(total_distance, cutting_speed),
              time_at_jog_speed |-> Ratio(total_distance, jog_speed),
              time_saved_minutes |-> RatioMinus(Ratio(total_distance, cutting_speed),
                                                Ratio(total_distance, jog_speed)),
              speed_improvement_factor |-> Ratio(jog_speed, cutting_speed)]

\* the keys the error dictionary of analyze_file does not carry
NoReport ==
    [detected_move_speed |-> None, detected_jog_speed |-> None,
     actual_cutting_speed |-> None, actual_jog_speed |-> None,
     conversion_stats |-> None, time_savings |-> None]

\* analyze_file on the lines read from the file, for a processor with the given
\* fallback rates: the exception it raises, or the dictionary it returns
analyze_text(lines, cutting_speed, jog_speed) ==
    IF \E i \in DOMAIN lines : LineRaises(lines[i])
    THEN [raised |-> "ValueError", value |-> NoAnalysis @@ NoReport]
    ELSE LET parsed == ParseLines(lines)
             found == analyze_lines(parsed)
             detected_move_speed == DetectSpeed(parsed, "MS", None)
             detected_jog_speed == DetectSpeed(parsed, "JS", None)
             actual_cutting_speed == ActualSpeed(detected_move_speed, cutting_speed)
             actual_jog_speed == ActualSpeed(detected_jog_speed, jog_speed)
         IN  IF found.error # ""
             THEN [raised |-> "", value |-> found @@ NoReport]
             ELSE IF TimeSavingsRaises(found.z_values, found.positioning_heights,
                                       actual_cutting_speed, actual_jog_speed)
             THEN [raised |-> "ZeroDivisionError", value |-> NoAnalysis @@ NoReport]
             ELSE [raised |-> "",
                   value |-> found @@
                       [detected_move_speed |-> detected_move_speed,
                        detected_jog_speed |-> detected_jog_speed,
                        actual_cutting_speed |-> Some(actual_cutting_speed),
                        actual_jog_speed |-> Some(actual_jog_speed),
                        conversion_stats |->
                            Some(calculate_conversion_stats(found.z_values,
                                                            found.positioning_heights)),
                        time_savings |->
                            Some(calculate_time_savings(M3Coordinates(parsed),
                                                        found.positioning_heights,
                                                        actual_cutting_speed,
                                                        actual_jog_speed))]]

\* ---- the path and the bytes of a text file
\* a byte that is not UTF-8: decoding it raises UnicodeDecodeError
InvalidByte == "0xFF"

\* str.lower(), on the letters the names of the model are written with
LowerChar(c) ==
    IF c = "S" THEN "s" ELSE IF c = "B" THEN "b" ELSE IF c = "P" THEN "p" ELSE c
Lower(s) == [i \in DOMAIN s |-> LowerChar(s[i])]

\* Path.suffix: the name from its last dot on, "" without a dot past the first character
PathSuffix(name) ==
    LET dots == {i \in DOMAIN name : name[i] = "." /\ i > 1}
    IN  IF dots = {} THEN <<>>
        ELSE Drop(name, (CHOOSE i \in dots : \A j \in dots : j <= i) - 1)

SbpSuffix == <<".", "s", "b", "p">>

\* the whole file is decoded whatever its length: every file of the model is
\* shorter than one buffer of the text layer
DecodeRaises(b) == \E i \in DOMAIN b : b[i] = InvalidByte

\* indicator in content
Contains(s, p) == \E i \in 0..(Len(s) - Len(p)) : SubSeq(s, i + 1, i + Len(p)) = p

\* ["SA", "M3,", "J2,", "J3,", "TR,", "CN,"]
shopbot_indicators ==
    {<<"S", "A">>, <<"M", "3", ",">>, <<"J", "2", ",">>, <<"J", "3", ",">>,
     <<"T", "R", ",">>, <<"C", "N", ",">>}

\* the whole text read, whatever the size asked for
ReadWhole(b, size) == UniversalNewlines(b)

\* f.read(size) of a text file: the first size characters of the decoded text,
\* its newlines translated
ReadText(b, size) ==
    LET s == UniversalNewlines(b)
    IN  SubSeq(s, 1, IF Len(s) < size THEN Len(s) ELSE size)

\* the characters validate_sbp_file reads: f.read(1000)
ReadSize == 1000

\* how the path stands: "ok", "missing" (exists() is false), "unreadable" (open()
\* raises OSError)
\* validate_sbp_file(file_path), on the name, the standing and the bytes of the file
validate_sbp_text(condition, name, b) ==
    IF condition = "missing" THEN FALSE
    ELSE IF Lower(PathSuffix(name)) # SbpSuffix THEN FALSE
    ELSE IF condition = "unreadable" \/ DecodeRaises(b) THEN FALSE
    ELSE \E indicator \in shopbot_indicators : Contains(ReadText(b, ReadSize), indicator)

\* analyze_file(file_path): the path checks, open() and the decoding raise before
\* any line is taken
analyze_path(condition, name, b, cutting_speed, jog_speed) ==
    IF condition = "missing"
    THEN [raised |-> "FileNotFoundError", value |-> NoAnalysis @@ NoReport]
    ELSE IF Lower(PathSuffix(name)) # SbpSuffix
    THEN [raised |-> "ValueError", value |-> NoAnalysis @@ NoReport]
    ELSE IF condition = "unreadable"
    THEN [raised |-> "OSError", value |-> NoAnalysis @@ NoReport]
    ELSE IF DecodeRaises(b)
    THEN [raised |-> "UnicodeDecodeError", value |-> NoAnalysis @@ NoReport]
    ELSE analyze_text(ReadLines(b), cutting_speed, jog_speed)

\* ---- the state
VARIABLES
    fs,       \* the directory: path -> None, or Some(the file's lines)
    clock,    \* the wall clock, in seconds
    pc,       \* where the call in progress stands
    args,     \* the arguments of the call in progress (of the last call)
    loc,      \* process_file's local variables
    result,   \* what the last call returned or raised
    pre,      \* history: the directory as the call in progress found it
    orig,     \* history: the directory before the first call
    calls,    \* calls started so far
    analysis, \* what the last analyze_file returned
    text      \* a call on the text of a file: its inputs and what it produced

vars == <<fs, clock, pc, args, loc, result, pre, orig, calls, analysis, text>>

\* ---- inputs of the model
Heights == (-1)..MaxZ
InputLines == {M3Line(0, 0, z) : z \in {-1, 1}} \cup {CommentLine}

RECURSIVE SeqsUpTo(_, _)
SeqsUpTo(S, n) ==
    IF n = 0 THEN {<<>>}
    ELSE LET shorter == SeqsUpTo(S, n - 1)
         IN  shorter \cup {Append(s, x) : s \in {t \in shorter : Len(t) = n - 1}, x \in S}

InputFiles == SeqsUpTo(InputLines, MaxLines)

\* the files of the analysis alone: cutting moves at every height, and comments
AnalysisLines == {M3Line(0, 0, z) : z \in Heights} \cup {CommentLine}
AnalysisFiles == SeqsUpTo(AnalysisLines, MaxCuts)

\* (positioning_heights, retract_height) of a direct call: auto-detection, a list,
\* a list of a negative height, the legacy single height
HeightArgs == {<<None, None>>, <<Some(<<1>>), None>>, <<Some(<<-1>>), None>>,
               <<None, Some(-1)>>, <<Some(<<>>), None>>}
OutputArgs(input_path) == {None, Some(Path("o.sbp")), Some(input_path)}

\* the CLI's --feed-height, and what the user types at the height prompt
FeedHeightOptions == {None} \cup {Some(h) : h \in Heights}

OldOutput == <<M3Line(0, 0, 1), M3Line(0, 0, 1)>>
OldBackup == <<CommentLine>>

\* entry: the function the call reached last ("cli": main ended before process_file)
\* history of a run of the command line: the options it was given and the
\* questions it has asked; NoCli when the call is not such a run
NoCli ==
    [used |-> FALSE, yes |-> FALSE, analyze_only |-> FALSE, feed_height |-> None,
     confirms |-> 0, answer |-> None, prompts |-> 0, entered |-> None]

NoArgs ==
    [entry |-> "", input_path |-> Path("a.sbp"), output_path |-> None,
     positioning_heights |-> None, retract_height |-> None, cli |-> NoCli]

NoLoc ==
    [positioning_heights |-> <<>>, in_place_modification |-> FALSE,
     output_path |-> Path("a.sbp"), backup_path |-> None, lines |-> <<>>,
     output_lines |-> <<>>, modifications |-> 0, total_m3_commands |-> 0,
     idx |-> 0, backup_failed |-> FALSE]

NoResult ==
    [success |-> FALSE, error |-> "", exception |-> "",
     in_place_modification |-> FALSE, backup_file |-> None,
     output_file |-> None, modifications_made |-> 0, total_m3_commands |-> 0]

\* no call on a text: the processor as constructed, nothing read, nothing written
NoText ==
    [stage |-> "none",
     cutting_speed_ipm |-> cutting_speed_ipm, jog_speed_ipm |-> jog_speed_ipm,
     name |-> <<"a">> \o SbpSuffix, condition |-> "ok", valid |-> None,
     linesep |-> <<"\n">>, file |-> <<>>, positioning_heights |-> None,
     raised |-> "", error |-> "", analysis |-> NoAnalysis @@ NoReport,
     heights |-> <<>>, header |-> <<>>, written |-> <<>>,
     modifications |-> 0, success |-> FALSE, report |-> None, again |-> None]

\* The directory a call finds: a.sbp with any content, b.txt, o.sbp present or not,
\* a backup of a.sbp left by an earlier run in this second or not.
Init ==
    /\ \E content \in InputFiles, output \in {None, Some(OldOutput)},
          backup \in {None, Some(OldBackup)} :
          fs = [p \in AllPaths |->
                  IF p = Path("a.sbp") THEN Some(content)
                  ELSE IF p = Path("b.txt") THEN Some(OldOutput)
                  ELSE IF p = Path("o.sbp") THEN output
                  ELSE IF p = BackupPathOf(Path("a.sbp"), 1) THEN backup
                  ELSE None]
    /\ clock = 1
    /\ pc = "idle"
    /\ args = NoArgs
    /\ loc = NoLoc
    /\ result = NoResult
    /\ pre = fs
    /\ orig = fs
    /\ calls = 0
    /\ analysis = NoAnalysis
    /\ text = NoText

\* ---- process_file, from its entry to the choice of the write path (lines 298-335)
Raise(exc) ==
    /\ pc' = "raised"
    /\ result' = [NoResult EXCEPT !.exception = exc]

ReturnError(msg) ==
    /\ pc' = "returned"
    /\ result' = [NoResult EXCEPT !.error = msg]

\* analyze_file (core.py 26-117): the two path checks raise, then the lines are read
AnalyzeOutcome(f, file_path) ==
    IF ~Exists(f, file_path) THEN [raised |-> "FileNotFoundError", value |-> NoAnalysis]
    ELSE IF Suffix(file_path) # ".sbp" THEN [raised |-> "ValueError", value |-> NoAnalysis]
    ELSE [raised |-> "", value |-> analyze_lines(Content(f, file_path))]

\* process_file, called directly (cli = NoCli) or by the run of the command line
\* whose history is cli
EnterFrom(cli, input_path, output_path, positioning_heights, retract_height) ==
    LET outcome == AnalyzeOutcome(fs, input_path)
        heights == DetermineHeights(outcome.value, positioning_heights, retract_height)
    IN  /\ args' = [entry |-> "process_file",
                    input_path |-> input_path, output_path |-> output_path,
                    positioning_heights |-> positioning_heights,
                    retract_height |-> retract_height, cli |-> cli]
        /\ pre' = fs
        /\ calls' = calls + 1
        /\ analysis' = outcome.value
        /\ UNCHANGED <<text, fs, clock, orig>>
        /\ IF outcome.raised # ""
           THEN Raise(outcome.raised) /\ loc' = NoLoc
           ELSE IF outcome.value.error # ""
           THEN ReturnError(outcome.value.error) /\ loc' = NoLoc
           ELSE IF HeightsMissing(heights)
           THEN ReturnError("Could not determine positioning heights") /\ loc' = NoLoc
           ELSE /\ loc' = [NoLoc EXCEPT
                             !.positioning_heights = heights,
                             !.in_place_modification = InPlaceModification(output_path),
                             !.output_path = IF InPlaceModification(output_path)
                                             THEN input_path ELSE Val(output_path),
                             !.total_m3_commands = outcome.value.m3_commands]
                /\ pc' = IF InPlaceModification(output_path) THEN "backup" ELSE "st_open"
                /\ result' = NoResult

Enter(input_path, output_path, positioning_heights, retract_height) ==
    EnterFrom(NoCli, input_path, output_path, positioning_heights, retract_height)

\* a direct call of analyze_file
AnalyzeFile ==
    /\ pc = "idle"
    /\ \E file_path \in UserPaths :
          LET outcome == AnalyzeOutcome(fs, file_path)
          IN  /\ args' = [NoArgs EXCEPT !.entry = "analyze_file", !.input_path = file_path]
              /\ analysis' = outcome.value
              /\ IF outcome.raised # ""
                 THEN Raise(outcome.raised)
                 ELSE ReturnError(outcome.value.error)
    /\ loc' = NoLoc
    /\ pre' = fs
    /\ calls' = calls + 1
    /\ UNCHANGED <<text, fs, clock, orig>>

\* a direct call of process_file
ProcessFile ==
    /\ pc = "idle"
    /\ \E input_path \in UserPaths, heights \in HeightArgs :
          \E output_path \in OutputArgs(input_path) :
             Enter(input_path, output_path, heights[1], heights[2])

\* ---- validate_sbp_file (core.py 451-474)
\* one of "SA", "M3,", "J2,", "J3,", "TR,", "CN," in the line
HasIndicator(line) ==
    \/ line.op = "SA"
    \/ line.op \in {"M3", "J2", "J3", "TR", "CN"} /\ line.args # <<>>

\* f.read(1000): the files of the model are shorter than the 1000 characters read
validate_sbp_file(f, p) ==
    /\ Exists(f, p)
    /\ Suffix(p) = ".sbp"
    /\ \E i \in DOMAIN Content(f, p) : HasIndicator(Content(f, p)[i])

\* ---- cli.main (cli.py 224-322)
\* click.Abort, or the return of --analyze-only: nothing was handed to process_file
CliEndsFrom(cli, how, input_path, output_path, found) ==
    /\ pc' = how
    /\ args' = [NoArgs EXCEPT !.entry = "cli", !.input_path = input_path,
                              !.output_path = output_path, !.cli = cli]
    /\ loc' = NoLoc
    /\ result' = NoResult
    /\ pre' = fs
    /\ calls' = calls + 1
    /\ analysis' = found
    /\ UNCHANGED <<text, fs, clock, orig>>

CliEnds(how, input_path, output_path, found) ==
    CliEndsFrom(NoCli, how, input_path, output_path, found)

\* manual_height_specified = feed_height is not None and feed_height >= 0
ManualHeightSpecified(feed_height) == feed_height # None /\ Val(feed_height) >= 0

\* click.Path(exists=True) has checked the path before main runs; the confirmation
\* and the height prompt are asked only on the branch that reaches them
CliMain ==
    /\ pc = "idle"
    /\ \E input_path \in {p \in UserPaths : Exists(fs, p)}, yes \in BOOLEAN,
          analyze_only \in BOOLEAN, feed_height \in FeedHeightOptions :
          \E output \in OutputArgs(input_path) :
             IF ~validate_sbp_file(fs, input_path)
             THEN CliEnds("aborted", input_path, output, NoAnalysis)
             ELSE LET found == analyze_lines(Content(fs, input_path))
                      detected == HeightsOf(found.positioning_heights)
                  IN  IF found.error # ""
                      THEN CliEnds("aborted", input_path, output, found)
                      ELSE IF analyze_only
                      THEN CliEnds("returned", input_path, output, found)
                      ELSE IF ManualHeightSpecified(feed_height)
                      THEN IF Val(feed_height) \notin DOMAIN found.z_counter
                           THEN CliEnds("aborted", input_path, output, found)
                           ELSE Enter(input_path, output, Some(<<Val(feed_height)>>), None)
                      ELSE IF detected = <<>>
                      THEN CliEnds("aborted", input_path, output, found)
                      ELSE IF yes
                      THEN Enter(input_path, output, Some(detected), None)
                      ELSE \E confirm \in BOOLEAN :
                              IF confirm
                              THEN Enter(input_path, output, Some(detected), None)
                              ELSE \E entered \in Heights :
                                      Enter(input_path, output, Some(<<entered>>), None)

\* ---- cli.main, question by question
\* --analyze-only not looked at
IgnoreAnalyzeOnly(analyze_only) == FALSE

\* if analyze_only: return
AnalyzeOnly(analyze_only) == analyze_only

\* the confirmation asked of whoever gave a height
AskUnlessYes(yes, manual_height_specified) == ~yes

\* if not yes and not manual_height_specified
AskConfirmation(yes, manual_height_specified) == ~yes /\ ~manual_height_specified

\* positioning_heights = [feed_height_input]
EnteredHeights(detected, feed_height_input) == <<feed_height_input>>

\* main, up to the confirmation: the run ends, goes on to process_file, or asks
CliStart ==
    /\ pc = "idle"
    /\ \E input_path \in {p \in UserPaths : Exists(fs, p)}, yes \in BOOLEAN,
          analyze_only \in BOOLEAN, feed_height \in FeedHeightOptions :
          \E output \in OutputArgs(input_path) :
             LET cli == [NoCli EXCEPT !.used = TRUE, !.yes = yes,
                                      !.analyze_only = analyze_only,
                                      !.feed_height = feed_height]
                 found == analyze_lines(Content(fs, input_path))
                 manual_height_specified == ManualHeightSpecified(feed_height)
                 positioning_heights ==
                     IF manual_height_specified THEN <<Val(feed_height)>>
                     ELSE HeightsOf(found.positioning_heights)
             IN  IF ~validate_sbp_file(fs, input_path)
                 THEN CliEndsFrom(cli, "aborted", input_path, output, NoAnalysis)
                 ELSE IF found.error # ""
                 THEN CliEndsFrom(cli, "aborted", input_path, output, found)
                 ELSE IF AnalyzeOnly(analyze_only)
                 THEN CliEndsFrom(cli, "returned", input_path, output, found)
                 ELSE IF manual_height_specified
                         /\ Val(feed_height) \notin DOMAIN found.z_counter
                 THEN CliEndsFrom(cli, "aborted", input_path, output, found)
                 ELSE IF ~manual_height_specified /\ positioning_heights = <<>>
                 THEN CliEndsFrom(cli, "aborted", input_path, output, found)
                 ELSE IF ~AskConfirmation(yes, manual_height_specified)
                 THEN EnterFrom(cli, input_path, output, Some(positioning_heights), None)
                 ELSE /\ pc' = "confirm"
                      /\ args' = [NoArgs EXCEPT
                                    !.entry = "cli", !.input_path = input_path,
                                    !.output_path = output,
                                    !.positioning_heights = Some(positioning_heights),
                                    !.cli = cli]
                      /\ loc' = NoLoc
                      /\ result' = NoResult
                      /\ pre' = fs
                      /\ analysis' = found
                      /\ UNCHANGED <<text, fs, clock, orig, calls>>

\* Confirm.ask("Proceed with these height conversions?") answered
CliConfirm ==
    /\ pc = "confirm"
    /\ \E answer \in BOOLEAN :
          LET cli == [args.cli EXCEPT !.confirms = @ + 1, !.answer = Some(answer)]
          IN  IF answer
              THEN EnterFrom(cli, args.input_path, args.output_path,
                             args.positioning_heights, None)
              ELSE /\ pc' = "height_prompt"
                   /\ args' = [args EXCEPT !.cli = cli]
                   /\ UNCHANGED <<text, fs, clock, loc, result, pre, orig, calls, analysis>>

\* FloatPrompt.ask("Please enter the feed height to convert") answered
CliHeightPrompt ==
    /\ pc = "height_prompt"
    /\ \E feed_height_input \in Heights :
          EnterFrom([args.cli EXCEPT !.prompts = @ + 1, !.entered = Some(feed_height_input)],
                    args.input_path, args.output_path,
                    Some(EnteredHeights(Val(args.positioning_heights), feed_height_input)),
                    None)

\* ---- the backup (lines 323-332)
BackupOk ==
    /\ pc = "backup"
    /\ LET backup_path == BackupPathOf(args.input_path, clock)
       IN  /\ fs' = CopyFile(fs, args.input_path, backup_path)
           /\ loc' = [loc EXCEPT !.backup_path = Some(backup_path)]
    /\ pc' = "ip_read"
    /\ UNCHANGED <<text, clock, args, result, pre, orig, calls, analysis>>

\* shutil.copy2 raises OSError: nothing was created, or the copy stopped part-way
BackupFail ==
    /\ pc = "backup"
    /\ LET backup_path == BackupPathOf(args.input_path, clock)
       IN  /\ \/ fs' = fs
               \/ \E part \in Prefixes(Content(fs, args.input_path)) :
                     fs' = WriteFile(fs, backup_path, part)
           /\ loc' = [loc EXCEPT !.backup_path = Some(backup_path),
                                 !.backup_failed = TRUE]
    /\ pc' = OnBackupOSError
    /\ result' = IF OnBackupOSError = "returned"
                 THEN [NoResult EXCEPT !.error = "Failed to create backup"]
                 ELSE result
    /\ UNCHANGED <<text, clock, args, pre, orig, calls, analysis>>

\* ---- the in-place path (lines 340-381)
\* the result dictionary of lines 423-440; backup_file is None when the key is absent
Success(l) ==
    [success |-> TRUE, error |-> "", exception |-> "",
     in_place_modification |-> l.in_place_modification,
     backup_file |-> l.backup_path,
     output_file |-> Some(l.output_path),
     modifications_made |-> l.modifications,
     total_m3_commands |-> l.total_m3_commands]

\* infile.readlines(), then the header and the loop over the lines, in memory
InPlaceRead ==
    /\ pc = "ip_read"
    /\ LET lines == Content(fs, args.input_path)
       IN  loc' = [loc EXCEPT
                     !.lines = lines,
                     !.output_lines = Header(loc.positioning_heights, args.input_path)
                                      \o RewriteLines(lines, loc.positioning_heights),
                     !.modifications = Modifications(lines, loc.positioning_heights)]
    /\ pc' = "ip_write"
    /\ UNCHANGED <<text, fs, clock, args, result, pre, orig, calls, analysis>>

\* open(output_path, "w") raises OSError
InPlaceOpenFail ==
    /\ pc = "ip_write"
    /\ Raise("OSError")
    /\ UNCHANGED <<text, fs, clock, args, loc, pre, orig, calls, analysis>>

\* open(output_path, "w")
InPlaceOpen ==
    /\ pc = "ip_write"
    /\ fs' = Truncate(fs, loc.output_path)
    /\ pc' = "ip_opened"
    /\ UNCHANGED <<text, clock, args, loc, result, pre, orig, calls, analysis>>

\* outfile.writelines(output_lines) and the close
InPlaceWrite ==
    /\ pc = "ip_opened"
    /\ fs' = WriteFile(fs, loc.output_path, loc.output_lines)
    /\ pc' = "returned"
    /\ result' = Success(loc)
    /\ UNCHANGED <<text, clock, args, loc, pre, orig, calls, analysis>>

\* the write raises OSError after part of the lines reached the file
InPlaceWriteFail ==
    /\ pc = "ip_opened"
    /\ \E part \in Prefixes(loc.output_lines) :
          fs' = WriteFile(fs, loc.output_path, part)
    /\ Raise("OSError")
    /\ UNCHANGED <<text, clock, args, loc, pre, orig, calls, analysis>>

\* ---- the streaming path (lines 383-415)
\* open(output_path, "w") raises OSError
StreamOpenFail ==
    /\ pc = "st_open"
    /\ Raise("OSError")
    /\ UNCHANGED <<text, fs, clock, args, loc, pre, orig, calls, analysis>>

\* open(input_path), open(output_path, "w"), and the header written to the buffer
StreamOpen ==
    /\ pc = "st_open"
    /\ fs' = Truncate(fs, loc.output_path)
    /\ loc' = [loc EXCEPT !.output_lines = Header(loc.positioning_heights, args.input_path)]
    /\ pc' = "st_loop"
    /\ UNCHANGED <<text, clock, args, result, pre, orig, calls, analysis>>

\* for line in infile: one line read from the input as it is on disk, one written
StreamLine ==
    /\ pc = "st_loop"
    /\ loc.idx < Len(Content(fs, args.input_path))
    /\ LET line == Content(fs, args.input_path)[loc.idx + 1]
       IN  loc' = [loc EXCEPT
                     !.idx = loc.idx + 1,
                     !.output_lines = Append(loc.output_lines,
                                             RewriteLine(line, loc.positioning_heights)),
                     !.modifications = loc.modifications +
                        (IF Converts(line, loc.positioning_heights) THEN 1 ELSE 0)]
    /\ UNCHANGED <<text, fs, clock, pc, args, result, pre, orig, calls, analysis>>

\* the end of the input: the with block closes the files, the buffer reaches the disk
StreamClose ==
    /\ pc = "st_loop"
    /\ loc.idx >= Len(Content(fs, args.input_path))
    /\ fs' = WriteFile(fs, loc.output_path, loc.output_lines)
    /\ pc' = "returned"
    /\ result' = Success(loc)
    /\ UNCHANGED <<text, clock, args, loc, pre, orig, calls, analysis>>

\* the flush raises OSError after part of the buffer reached the file
StreamCloseFail ==
    /\ pc = "st_loop"
    /\ loc.idx >= Len(Content(fs, args.input_path))
    /\ \E part \in Prefixes(loc.output_lines) :
          fs' = WriteFile(fs, loc.output_path, part)
    /\ Raise("OSError")
    /\ UNCHANGED <<text, clock, args, loc, pre, orig, calls, analysis>>

\* ---- the clock
Tick ==
    /\ clock < MaxClock
    /\ clock' = clock + 1
    /\ UNCHANGED <<text, fs, pc, args, loc, result, pre, orig, calls, analysis>>

\* the next call, after the last one has returned, raised or aborted
Again ==
    /\ pc \in {"returned", "raised", "aborted"}
    /\ calls < MaxCalls
    /\ pc' = "idle"
    /\ UNCHANGED <<text, fs, clock, args, loc, result, pre, orig, calls, analysis>>

Next ==
    \/ ProcessFile
    \/ AnalyzeFile
    \/ CliMain
    \/ BackupOk
    \/ BackupFail
    \/ InPlaceRead
    \/ InPlaceOpenFail
    \/ InPlaceOpen
    \/ InPlaceWrite
    \/ InPlaceWriteFail
    \/ StreamOpenFail
    \/ StreamOpen
    \/ StreamLine
    \/ StreamClose
    \/ StreamCloseFail
    \/ Tick

\* one call, in any directory
Spec == Init /\ [][Next]_vars

\* a sequence of calls on a directory that starts with the input file alone
InitSeq ==
    /\ Init
    /\ \A p \in AllPaths : Exists(fs, p) => p \in {Path("a.sbp"), Path("b.txt")}

NextSeq == Next \/ Again

SpecSeq == InitSeq /\ [][NextSeq]_vars

\* a run of the command line, or a call of analyze_file, in a directory that holds
\* the input file and a text file
NextCli ==
    \/ CliStart
    \/ CliConfirm
    \/ CliHeightPrompt
    \/ AnalyzeFile
    \/ BackupOk
    \/ BackupFail
    \/ InPlaceRead
    \/ InPlaceOpenFail
    \/ InPlaceOpen
    \/ InPlaceWrite
    \/ InPlaceWriteFail
    \/ StreamOpenFail
    \/ StreamOpen
    \/ StreamLine
    \/ StreamClose
    \/ StreamCloseFail

SpecCli == InitSeq /\ [][NextCli]_vars

\* analyze_file alone, on a file of cutting moves at any heights
InitAnalyze ==
    /\ \E content \in AnalysisFiles :
          fs = [p \in AllPaths |-> IF p = Path("a.sbp") THEN Some(content) ELSE None]
    /\ clock = 1
    /\ pc = "idle"
    /\ args = NoArgs
    /\ loc = NoLoc
    /\ result = NoResult
    /\ pre = fs
    /\ orig = fs
    /\ calls = 0
    /\ analysis = NoAnalysis
    /\ text = NoText

SpecAnalyze == InitAnalyze /\ [][AnalyzeFile]_vars

\* ---- the calls on the text of a file
\* what analyze_file raised or returned, recorded
TextAnalyzed(t, outcome) ==
    [t EXCEPT !.stage = "analyzed",
              !.raised = outcome.raised,
              !.error = outcome.value.error,
              !.analysis = outcome.value]

\* analyze_file(a.sbp) on the text
AnalyzeText ==
    /\ text.stage = "idle"
    /\ text' = TextAnalyzed(text, analyze_path(text.condition, text.name, text.file,
                                               text.cutting_speed_ipm, text.jog_speed_ipm))
    /\ UNCHANGED <<fs, clock, pc, args, loc, result, pre, orig, calls, analysis>>

\* process_file after its call of analyze_file: the exception propagated, the
\* error of the analysis returned, the heights determined
TextEntered(t, outcome) ==
    LET heights == DetermineHeights(outcome.value, t.positioning_heights, None)
        ended == [t EXCEPT !.stage = "processed", !.analysis = outcome.value]
    IN  IF outcome.raised # ""
        THEN [ended EXCEPT !.raised = outcome.raised]
        ELSE IF outcome.value.error # ""
        THEN [ended EXCEPT !.error = outcome.value.error]
        ELSE IF HeightsMissing(heights)
        THEN [ended EXCEPT !.error = "Could not determine positioning heights"]
        ELSE [ended EXCEPT !.stage = "rewriting", !.heights = heights]

\* process_file(a.sbp, output_path=o.sbp, positioning_heights) on the text, up to
\* the heights
ProcessText ==
    /\ text.stage = "idle"
    /\ text' = TextEntered(text, analyze_path(text.condition, text.name, text.file,
                                              text.cutting_speed_ipm, text.jog_speed_ipm))
    /\ UNCHANGED <<fs, clock, pc, args, loc, result, pre, orig, calls, analysis>>

\* the header, then every line read from the input, rewritten and written, and
\* the result
\* the result process_file returns after the rewrite: the heights used and the
\* modifications counted, with the statistics and the time savings of the analysis
ProcessReport(found, positioning_heights, modifications) ==
    [positioning_heights |-> positioning_heights,
     retract_height |-> positioning_heights[1],
     modifications_made |-> modifications,
     total_m3_commands |-> found.m3_commands,
     conversion_stats |-> found.conversion_stats,
     time_savings |-> found.time_savings,
     success |-> TRUE]

TextRewritten(t, lines) ==
    [t EXCEPT
       !.stage = "processed",
       !.header = Header(t.heights, Path("a.sbp")),
       !.written = WriteText(
           Concat([i \in DOMAIN lines |-> RewriteText(lines[i], t.heights)]),
           t.linesep),
       !.modifications =
           Cardinality({i \in DOMAIN lines : ConvertsText(lines[i], t.heights)}),
       !.success = TRUE,
       !.report = Some(ProcessReport(
           t.analysis, t.heights,
           Cardinality({i \in DOMAIN lines : ConvertsText(lines[i], t.heights)})))]

RewriteTextLines ==
    /\ text.stage = "rewriting"
    /\ text' = TextRewritten(text, ReadLines(text.file))
    /\ UNCHANGED <<fs, clock, pc, args, loc, result, pre, orig, calls, analysis>>

\* the file a successful rewrite of the text has written: the header and the lines
OutputText(t) == WriteText(HeaderText(t.heights, t.name), t.linesep) \o t.written

\* process_file on a file, whole: to the end of the rewrite when the heights are found
ProcessedWhole(entered) ==
    IF entered.stage = "rewriting"
    THEN TextRewritten(entered, ReadLines(entered.file))
    ELSE entered

\* process_file(o.sbp, output_path, positioning_heights) on the file the rewrite
\* has written, at the heights the rewrite used
SecondCall(t) ==
    [NoText EXCEPT !.stage = "idle", !.name = <<"o">> \o SbpSuffix,
                   !.file = OutputText(t), !.linesep = t.linesep,
                   !.positioning_heights = Some(t.heights)]

RewriteAgain ==
    /\ text.stage = "processed"
    /\ text.success
    /\ text.again = None
    /\ text' = [text EXCEPT
                  !.again = Some(ProcessedWhole(
                      TextEntered(SecondCall(text),
                                  analyze_path("ok", <<"o">> \o SbpSuffix, OutputText(text),
                                               cutting_speed_ipm, jog_speed_ipm))))]
    /\ UNCHANGED <<fs, clock, pc, args, loc, result, pre, orig, calls, analysis>>

\* the rest of the state while a text is worked on: no directory, no call
NoDirectory ==
    /\ fs = [p \in AllPaths |-> None]
    /\ clock = 1
    /\ pc = "idle"
    /\ args = NoArgs
    /\ loc = NoLoc
    /\ result = NoResult
    /\ pre = fs
    /\ orig = fs
    /\ calls = 0
    /\ analysis = NoAnalysis

\* the lines of the text files: cutting moves without whitespace, and with a blank
\* before the line, before the height and after it, at heights 1.0 and -1 and with
\* "-" for a height; a comment, a cutting opcode with two fields, a jog move
Blank == {<<>>, <<" ">>}
ZTokens == {<<"1", ".", "0">>, <<"-", "1">>, <<"-">>}
TextBodies ==
    {pad \o <<"M", "3", ",", "0", ",", "0", ",">> \o pad \o z \o pad :
        pad \in Blank, z \in ZTokens}
    \cup {<<"'", "c">>, <<"M", "3", ",", "0", ",", "0">>, <<"J", "3", ",", "0", ",", "0", ",", "1">>}
Terminators == {<<"\n">>, <<"\r", "\n">>}

\* files of up to n lines of the bodies B: every line but the last ends with one of
\* the terminators T, the last one may end with none
RECURSIVE TextsUpTo(_, _, _)
TextsUpTo(B, T, n) ==
    IF n = 0 THEN {<<>>}
    ELSE {<<>>} \cup {b \o e : b \in B, e \in T \cup {<<>>}}
         \cup {b \o e \o rest : b \in B, e \in T, rest \in TextsUpTo(B, T, n - 1) \ {<<>>}}

\* os.linesep
LineSeps == {<<"\n">>, <<"\r", "\n">>}

\* a file of any of the lines above, on either platform, rewritten at the detected
\* height or at height 1
InitText ==
    /\ NoDirectory
    /\ \E file \in TextsUpTo(TextBodies, Terminators, MaxTextLines),
          linesep \in LineSeps, positioning_heights \in {None, Some(<<1>>)} :
          text = [NoText EXCEPT !.stage = "idle", !.file = file, !.linesep = linesep,
                                !.positioning_heights = positioning_heights]

NextText == AnalyzeText \/ ProcessText \/ RewriteTextLines

SpecText == InitText /\ [][NextText]_vars

\* a rewrite, and the rewrite of what it wrote
SpecAgain == InitText /\ [][ProcessText \/ RewriteTextLines \/ RewriteAgain]_vars

\* the lines of the files of forms: a cutting move plain, padded, with blanks after
\* its commas, with a fraction, below zero; the opcode in lower case and not at the
\* start; two fields and four; text after the height; heights that are no numbers
FormBodies ==
    {<<"M", "3", ",", "0", ",", "0", ",", "1">>,
     <<" ", "M", "3", ",", "0", ",", "0", ",", "1", " ">>,
     <<"M", "3", ",", " ", "0", ",", " ", "0", ",", "\t", "1">>,
     <<"M", "3", ",", "0", ",", "0", ",", "1", ".", "0">>,
     <<"M", "3", ",", "0", ",", "0", ",", "-", "1">>,
     <<"m", "3", ",", "0", ",", "0", ",", "1">>,
     <<"x", "M", "3", ",", "0", ",", "0", ",", "1">>,
     <<"M", "3", ",", "0", ",", "0">>,
     <<"M", "3", ",", "0", ",", "0", ",", "1", ",", "1">>,
     <<"M", "3", ",", "0", ",", "0", ",", "1", "x">>,
     <<"M", "3", ",", "0", ",", "0", ",", "-">>,
     <<"M", "3", ",", "0", ",", "0", ",", "1", ".", "0", ".", "0">>}

\* analyze_file and process_file on a file of such lines, rewritten at the detected
\* height or at height 1
InitForms ==
    /\ NoDirectory
    /\ \E file \in TextsUpTo(FormBodies, {<<"\n">>}, MaxFormLines),
          positioning_heights \in {None, Some(<<1>>)} :
          text = [NoText EXCEPT !.stage = "idle", !.file = file,
                                !.positioning_heights = positioning_heights]

SpecForms == InitForms /\ [][NextText]_vars

\* the lines of the files of rates: cutting moves at heights 1 and 2, cutting
\* speeds 1, 2 (with a Z rate) and 0, jog speeds 3 and -1
RateBodies ==
    {<<"M", "3", ",", "0", ",", "0", ",", "1">>, <<"M", "3", ",", "0", ",", "0", ",", "2">>,
     <<"M", "S", ",", "1">>, <<"M", "S", ",", "2", ",", "1">>, <<"M", "S", ",", "0">>,
     <<"J", "S", ",", "3">>, <<"J", "S", ",", "-", "1">>}

\* the fallback rates a processor is configured with
ConfiguredCuttingSpeeds == {cutting_speed_ipm, 0, 0 - cutting_speed_ipm}
ConfiguredJogSpeeds == {jog_speed_ipm, 0, 0 - jog_speed_ipm}

\* analyze_file alone, on a file of cutting moves and speed declarations
InitRates ==
    /\ NoDirectory
    /\ \E file \in TextsUpTo(RateBodies, {<<"\n">>}, MaxRateLines),
          cutting \in ConfiguredCuttingSpeeds, jog \in ConfiguredJogSpeeds :
          text = [NoText EXCEPT !.stage = "idle", !.file = file,
                                !.cutting_speed_ipm = cutting, !.jog_speed_ipm = jog]

SpecRates == InitRates /\ [][AnalyzeText]_vars

\* the lines of the files of moves: cutting moves between the corners (0,0), (3,0)
\* and (3,4), at heights 1 and 2
SavingsBodies ==
    {<<"M", "3", ",">> \o xy \o <<",">> \o z :
        xy \in {<<"0", ",", "0">>, <<"3", ",", "0">>, <<"3", ",", "4">>},
        z \in {<<"1">>, <<"2">>}}

\* the rates a processor is configured with: the jog faster than the cut, slower
\* than it, and equal to it
SavingsSpeeds == {cutting_speed_ipm, jog_speed_ipm}

\* analyze_file alone, on a file of cutting moves between the corners
InitSavings ==
    /\ NoDirectory
    /\ \E file \in TextsUpTo(SavingsBodies, {<<"\n">>}, MaxSavingsLines),
          cutting \in SavingsSpeeds, jog \in SavingsSpeeds :
          text = [NoText EXCEPT !.stage = "idle", !.file = file,
                                !.cutting_speed_ipm = cutting, !.jog_speed_ipm = jog]

SpecSavings == InitSavings /\ [][AnalyzeText]_vars

\* validate_sbp_file(file_path) on the text
ValidateText ==
    /\ text.stage = "idle"
    /\ text' = [text EXCEPT !.stage = "validated",
                            !.valid = Some(validate_sbp_text(text.condition, text.name,
                                                             text.file))]
    /\ UNCHANGED <<fs, clock, pc, args, loc, result, pre, orig, calls, analysis>>

\* n bytes of comment before the lines of a file: one long line ended by "\n",
\* after three lines ended by "\r\n" or not; the three lines are nine bytes and
\* six characters read
Filler(n) == IF n = 0 THEN <<>> ELSE [i \in 1..n |-> IF i = n THEN "\n" ELSE "'"]
ThreeCRLF == <<"'", "\r", "\n", "'", "\r", "\n", "'", "\r", "\n">>
Fillers ==
    {Filler(0), Filler(ReadSize - 2), Filler(ReadSize),
     ThreeCRLF \o Filler(ReadSize - Len(ThreeCRLF))}

\* the lines after the filler: a cutting move, the opcode SA, a comment, a cutting
\* opcode in lower case, a byte that is not UTF-8
SniffBodies ==
    {<<"M", "3", ",", "0", ",", "0", ",", "1">>, <<"S", "A">>, <<"'", "c">>,
     <<"m", "3", ",", "0", ",", "0", ",", "1">>, <<InvalidByte>>}

\* the names a file goes by
SniffNames == {<<"a">> \o SbpSuffix, <<"a", ".", "S", "B", "P">>, <<"a", ".", "t", "x", "t">>}

\* validate_sbp_file and analyze_file on a path of any name and standing
InitValidate ==
    /\ NoDirectory
    /\ \E filler \in Fillers, file \in TextsUpTo(SniffBodies, {<<"\n">>}, MaxSniffLines),
          name \in SniffNames, condition \in {"ok", "missing", "unreadable"} :
          text = [NoText EXCEPT !.stage = "idle", !.name = name, !.condition = condition,
                                !.file = IF condition = "missing" THEN <<>>
                                         ELSE filler \o file]

SpecValidate == InitValidate /\ [][ValidateText \/ AnalyzeText]_vars

\* ---- what the claims speak of
\* the cutting moves of a file at height z, counted on the lines themselves
CutCount(lines, z) == Cardinality({i \in DOMAIN lines : m3_match(lines[i]) /\ ZOf(lines[i]) = z})
CutHeights(lines) == {ZOf(lines[i]) : i \in {k \in DOMAIN lines : m3_match(lines[k])}}
Candidates(lines) == {z \in CutHeights(lines) : z >= 0 /\ CutCount(lines, z) >= 2}

Analyzed ==
    /\ args.entry = "analyze_file"
    /\ pc = "returned"
    /\ analysis.error = ""

InputBefore == Content(pre, args.input_path)

\* C1: the feed height analyze_file selects is never negative, however often a
\* negative height occurs; when every height occurring at least twice is negative
\* there is no feed height and the positioning-height list is empty.
C1_FeedHeightNeverNegative ==
    /\ analysis.feed_height # None => Val(analysis.feed_height) >= 0
    /\ \A i \in DOMAIN analysis.positioning_heights :
          analysis.positioning_heights[i][1] >= 0
    /\ (Analyzed /\ \A z \in CutHeights(InputBefore) :
                       CutCount(InputBefore, z) >= 2 => z < 0)
          => analysis.feed_height = None /\ analysis.positioning_heights = <<>>

C1_Witness ==
    /\ Analyzed
    /\ CutCount(InputBefore, -1) >= 2
    /\ analysis.feed_height = None

\* C10: when some non-negative height occurs at least twice, analyze_file selects
\* exactly one feed height, the candidate of the highest count and among equal
\* counts the largest, and the one positioning height carries that height's count.
C10_MostFrequentThenLargest ==
    (Analyzed /\ Candidates(InputBefore) # {}) =>
        /\ analysis.feed_height # None
        /\ LET f == Val(analysis.feed_height)
           IN  /\ f \in Candidates(InputBefore)
               /\ \A c \in Candidates(InputBefore) :
                     \/ CutCount(InputBefore, f) > CutCount(InputBefore, c)
                     \/ CutCount(InputBefore, f) = CutCount(InputBefore, c) /\ f >= c
               /\ analysis.positioning_heights = << <<f, CutCount(InputBefore, f)>> >>

C10_Witness ==
    /\ Analyzed
    /\ CutCount(InputBefore, 1) = 2
    /\ CutCount(InputBefore, MaxZ) = 2
    /\ analysis.feed_height = Some(MaxZ)

\* a call of process_file, direct or from the CLI, in progress or over
Rewriting == args.entry = "process_file"
Over == pc \in {"returned", "raised"}
Succeeded == Rewriting /\ pc = "returned" /\ result.success
InPlaceCall == Rewriting /\ args.output_path = None
DistinctOutputCall ==
    /\ Rewriting
    /\ args.output_path # None
    /\ Val(args.output_path) # args.input_path

\* C2: no cutting move at a strictly negative height is rewritten to a jog move,
\* whatever heights the rewrite was given.
C2_NegativeNeverJogged ==
    Succeeded =>
        LET written == Content(fs, Val(result.output_file))
        IN  \A i \in DOMAIN InputBefore :
               (m3_match(InputBefore[i]) /\ ZOf(InputBefore[i]) < 0 /\ i + 5 <= Len(written))
                  => written[i + 5] = InputBefore[i]

\* C3: in an in-place rewrite, once the input file has been opened for writing, and
\* whenever its content differs from what the call found, the backup exists and holds
\* the content the call found.
C3_BackupBeforeFirstWrite ==
    (InPlaceCall /\ (pc = "ip_opened" \/ fs[args.input_path] # pre[args.input_path])) =>
        /\ loc.backup_path # None
        /\ fs[Val(loc.backup_path)] = pre[args.input_path]

C3_Witness ==
    /\ InPlaceCall
    /\ pc = "ip_opened"
    /\ fs[args.input_path] = Some(<<>>)
    /\ Len(InputBefore) = MaxLines
    /\ fs[Val(loc.backup_path)] = Some(InputBefore)

\* C4: when the backup cannot be created, process_file returns the error
\* 'Failed to create backup', and the input file and every other file that is not
\* the backup are as the call found them.
C4_BackupFailureLeavesInput ==
    loc.backup_failed =>
        /\ pc = "returned"
        /\ ~result.success
        /\ result.error = "Failed to create backup"
        /\ \A p \in AllPaths : p # Val(loc.backup_path) => fs[p] = pre[p]

C4_Witness ==
    /\ InPlaceCall
    /\ loc.backup_failed
    /\ pc = "returned"
    /\ Len(InputBefore) = MaxLines

\* the input file or one of its backups holds the bytes a.sbp had before the first call
OriginalHeld ==
    \E p \in AllPaths :
       /\ p.base = "a.sbp"
       /\ fs[p] = orig[Path("a.sbp")]

\* C5: the bytes the input file had before the first call are held by the input
\* file or by one of its backups after every step of every rewrite.  Stated for the
\* steps of in-place rewrites alone: none of them loses the original.
C5_OriginalNeverLost ==
    [][(InPlaceCall /\ args.input_path = Path("a.sbp") /\ OriginalHeld) => OriginalHeld']_vars

\* C6: a rewrite with an explicit output path distinct from the input path leaves
\* the input file and every backup path as it found them, and its result reports
\* in_place_modification false and no backup_file.
C6_DistinctOutputLeavesInput ==
    DistinctOutputCall =>
        /\ fs[args.input_path] = pre[args.input_path]
        /\ \A b \in BackupPaths : fs[b] = pre[b]
        /\ Succeeded => ~result.in_place_modification /\ result.backup_file = None

C6_Witness ==
    /\ DistinctOutputCall
    /\ Succeeded
    /\ result.modifications_made > 0
    /\ fs[Val(args.output_path)] # pre[Val(args.output_path)]

\* C7: a successful rewrite creates and reports a backup exactly when its output
\* path equals its input path, omitted or given.
C7_BackupIffInPlace ==
    Succeeded =>
        ((result.backup_file # None /\ Exists(fs, Val(result.backup_file)))
            <=> Val(result.output_file) = args.input_path)

\* C8: after an in-place rewrite, completed or failed, the input file holds the
\* complete rewritten content or the content the call found.
C8_InPlaceAllOrNothing ==
    (InPlaceCall /\ Over) =>
        \/ fs[args.input_path] = pre[args.input_path]
        \/ fs[args.input_path] =
              Some(Header(loc.positioning_heights, args.input_path)
                   \o RewriteLines(InputBefore, loc.positioning_heights))

\* no height is given and none can be detected
NoHeightGiven ==
    \/ args.positioning_heights = Some(<<>>)
    \/ /\ args.positioning_heights = None
       /\ args.retract_height = None
       /\ Candidates(InputBefore) = {}

FailsEarly ==
    /\ Rewriting
    /\ \/ ~Exists(pre, args.input_path)
       \/ Suffix(args.input_path) # ".sbp"
       \/ CutHeights(InputBefore) = {}
       \/ NoHeightGiven

\* C9: a rewrite that fails before the write stage (input missing, wrong extension,
\* no cutting command, no height determined) has ended, without success, and no
\* file was created, written or modified.
C9_EarlyFailureTouchesNothing ==
    FailsEarly => Over /\ ~result.success /\ fs = pre

C9_Witness ==
    /\ FailsEarly
    /\ Exists(pre, args.input_path)
    /\ CutCount(InputBefore, -1) >= 2
    /\ result.error = "Could not determine positioning heights"

\* a call of analyze_file or of process_file on an existing .sbp file
CalledOnSbp ==
    /\ args.entry \in {"analyze_file", "process_file"}
    /\ Exists(pre, args.input_path)
    /\ Suffix(args.input_path) = ".sbp"

\* the file has cutting moves, and every height is negative or occurs once
NoCandidateFile ==
    /\ CalledOnSbp
    /\ CutHeights(InputBefore) # {}
    /\ Candidates(InputBefore) = {}

\* C11: on a file with cutting moves but no candidate height the analysis reports
\* no feed height and no positioning height, and a rewrite given no height returns
\* the error 'Could not determine positioning heights' with every file as it was;
\* on a file with no cutting move the analysis returns the error 'No M3 commands
\* found in file' with m3_commands 0, and the rewrite returns that error.
C11_NoCandidateNoDefault ==
    /\ NoCandidateFile =>
          /\ analysis.error = ""
          /\ analysis.feed_height = None
          /\ analysis.positioning_heights = <<>>
    /\ (NoCandidateFile /\ Rewriting /\ args.positioning_heights = None
                        /\ args.retract_height = None) =>
          /\ pc = "returned"
          /\ ~result.success
          /\ result.error = "Could not determine positioning heights"
          /\ fs = pre
    /\ (CalledOnSbp /\ CutHeights(InputBefore) = {}) =>
          /\ analysis.error = "No M3 commands found in file"
          /\ analysis.m3_commands = 0
          /\ pc = "returned"
          /\ result.error = "No M3 commands found in file"
          /\ fs = pre

C11_Witness ==
    /\ NoCandidateFile
    /\ Rewriting
    /\ args.positioning_heights = None
    /\ args.retract_height = None
    /\ CutCount(InputBefore, 1) = 1
    /\ CutCount(InputBefore, -1) = 2
    /\ result.error = "Could not determine positioning heights"

\* the heights the caller handed to process_file, as a set
SuppliedHeights ==
    IF args.positioning_heights # None
    THEN {Val(args.positioning_heights)[i] : i \in DOMAIN Val(args.positioning_heights)}
    ELSE IF args.retract_height # None THEN {Val(args.retract_height)} ELSE {}

\* C12: a rewrite given a height that is the height of no cutting move of the file
\* fails, and leaves every file as it was and creates no backup.
C12_AbsentHeightFails ==
    (Rewriting /\ CalledOnSbp /\ \E h \in SuppliedHeights : CutCount(InputBefore, h) = 0) =>
        /\ pc = "returned"
        /\ ~result.success
        /\ fs = pre

\* the lines of the input file and of the content written after the header, as
\* the files hold them: each with its terminator, "\r\n" included
InputTextLines == SplitLines(text.file)
WrittenTextLines == SplitLines(text.written)

\* C13: a line that parses as a cutting move at a height of the set used is
\* written as the line the file held with its first "M3," replaced by "J3,": the
\* whitespace before, inside and after it and its terminator, or the absence of
\* one, are as they were.
C13_OnlyOpcodeReplaced ==
    text.success =>
        \A i \in DOMAIN InputTextLines :
           ConvertsText(InputTextLines[i], text.heights) =>
              /\ i \in DOMAIN WrittenTextLines
              /\ WrittenTextLines[i] =
                    ReplaceFirst(InputTextLines[i], <<"M", "3", ",">>, <<"J", "3", ",">>)

\* C14: after the header the written file has one line for every line of the
\* input, in the same order, and every line that is not a cutting move at a height
\* of the set used is written as the file held it, terminator included.
C14_OtherLinesVerbatim ==
    text.success =>
        /\ Len(WrittenTextLines) = Len(InputTextLines)
        /\ \A i \in DOMAIN InputTextLines :
              ~ConvertsText(InputTextLines[i], text.heights) =>
                  /\ i \in DOMAIN WrittenTextLines
                  /\ WrittenTextLines[i] = InputTextLines[i]

\* the file a successful rewrite reports as its output, as it is on disk
WrittenFile == Content(fs, Val(result.output_file))

\* C15: the file a successful rewrite wrote, in place or at an output path, starts
\* with the five header lines (tool and version, the heights used, the conversion
\* note, the name of the input file, a blank line), also when no line was modified.
C15_HeaderFirst ==
    Succeeded =>
        /\ Exists(fs, Val(result.output_file))
        /\ Len(WrittenFile) >= 5
        /\ WrittenFile[1].op = "' File modified by ShopBotJog v"
        /\ WrittenFile[2].op \in {"' Feed height detected as: ", "' Feed heights detected as: "}
        /\ WrittenFile[2].args = SortedDesc(loc.positioning_heights)
        /\ WrittenFile[3].op = "' M3 commands at feed height converted to J3 for rapid jogging"
        /\ WrittenFile[4] = [op |-> "' Original file: ", args |-> <<>>, text |-> args.input_path.base]
        /\ WrittenFile[5] = [op |-> "", args |-> <<>>, text |-> ""]

C15_Witness ==
    /\ Succeeded
    /\ InPlaceCall
    /\ Len(InputBefore) = MaxLines
    /\ result.modifications_made = 0
    /\ Len(WrittenFile) = MaxLines + 5

\* C16: in the result of a successful rewrite modifications_made is the number of
\* cutting moves of the input at a height of the set used, total_m3_commands is
\* the number of cutting moves of the input, and the first is at most the second.
C16_CountsMatchInput ==
    Succeeded =>
        /\ result.modifications_made = Modifications(InputBefore, loc.positioning_heights)
        /\ result.total_m3_commands = Len(ZValues(InputBefore))
        /\ result.modifications_made <= result.total_m3_commands

\* C17: no line of text makes analyze_file or process_file raise: a line whose
\* fields are not numbers ('-', '.', '1.2.3', '1-2') or are too few or too many is
\* passed over, and the call returns.
C17_ParsingNeverFails ==
    text.stage \in {"analyzed", "processed"} => text.raised # "ValueError"

\* analyze_file has returned its report on the text
ReportedText ==
    /\ text.stage = "analyzed"
    /\ text.raised = ""
    /\ text.error = ""

\* the lines of the text as the analysis takes them, and the declarations of a kind
ParsedText == ParseLines(ReadLines(text.file))
Declarations(opcode) == {i \in DOMAIN ParsedText : ParsedText[i].op = opcode}
LastDeclared(opcode) ==
    ParsedText[CHOOSE i \in Declarations(opcode) : \A j \in Declarations(opcode) : j <= i].args[1]

\* the rate the report must carry for a kind of speed
EffectiveRate(opcode, configured) ==
    IF Declarations(opcode) = {} THEN configured ELSE 60 * LastDeclared(opcode)

\* C18: the cutting rate and the jog rate analyze_file reports are 60 times the XY
\* rate of the last MS, respectively JS, declaration of the file, wherever it stands
\* among the cutting moves, and the rate the processor is configured with when the
\* file has no declaration of the kind.
C18_LastDeclaredRateWins ==
    ReportedText =>
        /\ text.analysis.actual_cutting_speed = Some(EffectiveRate("MS", text.cutting_speed_ipm))
        /\ text.analysis.actual_jog_speed = Some(EffectiveRate("JS", text.jog_speed_ipm))

C18_Witness ==
    /\ ReportedText
    /\ Len(ParsedText) = MaxRateLines
    /\ ParsedText[1] = SpeedLine("MS", 1)
    /\ ParsedText[2].op = "M3"
    /\ ParsedText[Len(ParsedText)] = SpeedLine("MS", 2)
    /\ Declarations("JS") = {}
    /\ text.analysis.actual_cutting_speed = Some(120)
    /\ text.analysis.actual_jog_speed = Some(text.jog_speed_ipm)

\* a cutting or jog rate that is zero or negative: configured, or declared in the file
NonPositiveRate ==
    \/ text.cutting_speed_ipm <= 0
    \/ text.jog_speed_ipm <= 0
    \/ \E i \in Declarations("MS") \cup Declarations("JS") : ParsedText[i].args[1] <= 0

\* C19: with a cutting or jog rate that is zero or negative, configured or declared
\* in the file, analyze_file produces no report.
C19_NonPositiveRateRejected ==
    NonPositiveRate => ~ReportedText

\* the conversion statistics of the report, and the heights the analysis selected
Stats == Val(text.analysis.conversion_stats)
SelectedHeights == {text.analysis.positioning_heights[i][1] :
                       i \in DOMAIN text.analysis.positioning_heights}
CuttingMoves == {i \in DOMAIN ParsedText : m3_match(ParsedText[i])}

\* C20: in every report of analyze_file positioning_commands + cutting_commands is
\* total_m3_commands, the number of cutting moves of the file; positioning_commands
\* is the number of cutting moves at a selected height; conversion_percentage is
\* positioning_commands / total_m3_commands * 100, and 0 when no height is selected;
\* and the statistics of no cutting move at all give 0, with no division.
C20_ConversionStatsAddUp ==
    /\ ReportedText =>
          /\ Stats.total_m3_commands = Cardinality(CuttingMoves)
          /\ Stats.total_m3_commands = text.analysis.m3_commands
          /\ Stats.positioning_commands + Stats.cutting_commands = Stats.total_m3_commands
          /\ Stats.positioning_commands =
                Cardinality({i \in CuttingMoves : ZOf(ParsedText[i]) \in SelectedHeights})
          /\ Stats.conversion_percentage.den > 0
          /\ Stats.conversion_percentage.num * Stats.total_m3_commands =
                Stats.positioning_commands * 100 * Stats.conversion_percentage.den
          /\ SelectedHeights = {} => Stats.conversion_percentage.num = 0
    /\ \A selected \in {<<>>, << <<1, 2>> >>} :
          /\ calculate_conversion_stats(<<>>, selected).conversion_percentage.num = 0
          /\ calculate_conversion_stats(<<>>, selected).conversion_percentage.den > 0

C20_Witness ==
    /\ ReportedText
    /\ SelectedHeights = {1}
    /\ Stats.positioning_commands = 2
    /\ Stats.cutting_commands = 1
    /\ Stats.conversion_percentage = Ratio(200, 3)

\* the time-savings report, the cutting moves at a selected height, and the next
\* such move after one of them
Savings == Val(text.analysis.time_savings)
SelectedMoves == {i \in CuttingMoves : ZOf(ParsedText[i]) \in SelectedHeights}
Followed == {i \in SelectedMoves : \E j \in SelectedMoves : j > i}
NextSelected(i) ==
    CHOOSE j \in SelectedMoves : j > i /\ \A k \in SelectedMoves : k > i => j <= k

\* the planar distance between the cutting moves of lines i and j
PlanarDistance(i, j) ==
    LET a == ParsedText[i].args
        b == ParsedText[j].args
    IN  CHOOSE d \in 0..5 :
            d * d = (b[1] - a[1]) * (b[1] - a[1]) + (b[2] - a[2]) * (b[2] - a[2])

RECURSIVE SumOfLegs(_)
SumOfLegs(S) ==
    IF S = {} THEN 0
    ELSE LET i == CHOOSE k \in S : TRUE
         IN  PlanarDistance(i, NextSelected(i)) + SumOfLegs(S \ {i})

\* C21: in every report of analyze_file the time savings are those of the cutting
\* moves at the selected height, in file order: the total distance is the sum of
\* the planar distances between each such move and the next one, whatever cutting
\* moves at other heights stand between them; the average is total / (count - 1)
\* when count > 1 and 0 otherwise; the time saved is total / cutting rate -
\* total / jog rate, negative when the jog rate is the lower one.
C21_TimeSavingsOfSelectedMoves ==
    ReportedText =>
        LET total == SumOfLegs(Followed)
            count == Cardinality(SelectedMoves)
            cutting_rate == Val(text.analysis.actual_cutting_speed)
            jog_rate == Val(text.analysis.actual_jog_speed)
        IN  /\ Savings.positioning_commands = count
            /\ Savings.total_move_distance = total
            /\ Savings.avg_move_distance.den # 0
            /\ IF count > 1
               THEN Savings.avg_move_distance.num * (count - 1) =
                        total * Savings.avg_move_distance.den
               ELSE Savings.avg_move_distance.num = 0
            /\ Savings.time_saved_minutes.den # 0
            /\ Savings.time_saved_minutes.num * cutting_rate * jog_rate =
                  (total * jog_rate - total * cutting_rate) * Savings.time_saved_minutes.den
            /\ (total > 0 /\ jog_rate < cutting_rate) =>
                  Savings.time_saved_minutes.num * Savings.time_saved_minutes.den < 0

\* the moves (0,0) and (3,4) at height 1 with a move at height 2 between them, at
\* the rates 60 and 300: the distance is 5, the time saved 5/60 - 5/300 = 1/15
C21_Witness ==
    /\ ReportedText
    /\ Len(ParsedText) = 3
    /\ ParsedText[1] = M3Line(0, 0, 1)
    /\ ParsedText[2] = M3Line(3, 0, 2)
    /\ ParsedText[3] = M3Line(3, 4, 1)
    /\ text.analysis.actual_cutting_speed = Some(cutting_speed_ipm)
    /\ text.analysis.actual_jog_speed = Some(jog_speed_ipm)
    /\ Savings.total_move_distance = 5
    /\ Savings.time_saved_minutes.num * 15 = Savings.time_saved_minutes.den

\* validate_sbp_file has returned; the name carries the extension; one of the
\* opcode substrings lies wholly within the first n elements of s
Validated == text.stage = "validated"
NameIsSbp == Lower(PathSuffix(text.name)) = SbpSuffix
OpcodeWithin(s, n) ==
    \E indicator \in shopbot_indicators :
        \E i \in 0..(Len(s) - Len(indicator)) :
            /\ i + Len(indicator) <= n
            /\ SubSeq(s, i + 1, i + Len(indicator)) = indicator
Usable == text.condition = "ok" /\ NameIsSbp /\ ~DecodeRaises(text.file)

C23_RejectedBeforeParsing ==
    text.stage = "analyzed" =>
        /\ text.condition = "missing" => text.raised = "FileNotFoundError"
        /\ (text.condition # "missing"
            /\ ~validate_sbp_text(text.condition, text.name, text.file)) =>
              /\ text.raised = "ValueError"
              /\ text.analysis = NoAnalysis @@ NoReport

\* C25: validate_sbp_file accepts every existing, readable .sbp file that holds a
\* line analyze_file takes for a cutting move, wherever in the file the line stands.
C25_GenuineFileAccepted ==
    (Validated /\ Usable /\ \E i \in DOMAIN ParsedText : m3_match(ParsedText[i])) =>
        text.valid = Some(TRUE)

\* the call is an analysis alone: analyze_file, or a run of the command line with
\* --analyze-only
AnalysisAlone ==
    \/ args.entry = "analyze_file"
    \/ args.cli.used /\ args.cli.analyze_only

\* C24: analyze_file, and a run of the command line with --analyze-only, leave
\* every file of the directory as it was: the input is not modified, no backup is
\* created, no output is written, and no step of the rewrite is ever entered.
C24_AnalysisReadOnly ==
    AnalysisAlone =>
        /\ fs = orig
        /\ pc \in {"returned", "raised", "aborted"}
        /\ loc = NoLoc

\* --analyze-only with --yes and an output path, on a file with a feed height
C24_Witness ==
    /\ args.cli.used /\ args.cli.analyze_only /\ args.cli.yes
    /\ args.input_path = Path("a.sbp")
    /\ args.output_path = Some(Path("o.sbp"))
    /\ pc = "returned"
    /\ analysis.feed_height = Some(1)
    /\ fs = orig
    /\ ~Exists(fs, Path("o.sbp"))

\* a run of the command line that went on to process_file, the steps of the
\* rewrite, and the heights the analysis of the run detected
CliRewrite == args.cli.used /\ args.entry = "process_file"
RewriteSteps ==
    {"backup", "ip_read", "ip_write", "ip_opened", "st_open", "st_loop"}
DetectedHeights == HeightsOf(analysis.positioning_heights)
ValidManualHeight ==
    /\ ManualHeightSpecified(args.cli.feed_height)
    /\ Val(args.cli.feed_height) \in DOMAIN analysis.z_counter

RECURSIVE CommaFields(_)
CommaFields(s) ==
    IF \E i \in DOMAIN s : s[i] = ","
    THEN LET c == CHOOSE i \in DOMAIN s : s[i] = "," /\ \A j \in 1..(i - 1) : s[j] # ","
         IN  <<SubSeq(s, 1, c - 1)>> \o CommaFields(Drop(s, c))
    ELSE <<s>>

\* a cutting command as the claim has it: the trimmed line starts with M3, and
\* goes on with exactly three fields between commas, each a number after blanks
CuttingForm(line) ==
    LET s == strip(line)
        fields == CommaFields(Drop(s, 3))
    IN  /\ StartsWith(s, <<"M", "3", ",">>)
        /\ Len(fields) = 3
        /\ \A i \in 1..3 : IsFloat(Drop(fields[i], Span(fields[i], Whitespace)))
FormHeight(line) ==
    LET fields == CommaFields(Drop(strip(line), 3))
    IN  float(Drop(fields[3], Span(fields[3], Whitespace)))

\* C26: the lines analyze_file counts as cutting commands are the lines that, once
\* trimmed, start with M3, followed by exactly three numeric fields between commas
\* and nothing else; every other line (a lower-case opcode, an opcode not at the
\* start, two fields or four, text after the height, a field that is no number) is
\* passed over by the analysis and written as read by the rewrite; and the rewrite
\* changes the cutting commands at the heights used and no other line.
C26_RecognizedIffCuttingForm ==
    /\ text.stage \in {"analyzed", "processed"} =>
          /\ text.raised = ""
          /\ text.analysis.m3_commands =
                Cardinality({i \in DOMAIN InputTextLines : CuttingForm(InputTextLines[i])})
    /\ (text.stage = "processed" /\ text.success) =>
          /\ Len(WrittenTextLines) = Len(InputTextLines)
          /\ \A i \in DOMAIN InputTextLines :
                (CuttingForm(InputTextLines[i])
                 /\ InHeights(FormHeight(InputTextLines[i]), text.heights))
                <=> strip(WrittenTextLines[i]) # strip(InputTextLines[i])
          /\ text.modifications =
                Cardinality({i \in DOMAIN InputTextLines :
                                /\ CuttingForm(InputTextLines[i])
                                /\ InHeights(FormHeight(InputTextLines[i]), text.heights)})

\* what a rewrite of the input at the heights used must write and report, whichever
\* path writes it
ExpectedFile ==
    Header(loc.positioning_heights, args.input_path)
        \o RewriteLines(InputBefore, loc.positioning_heights)

\* C28: a successful rewrite writes the same content and reports the same
\* modifications_made for the same input and the same heights, whether it is
\* written in place (all lines read, transformed in memory, written at once) or to
\* an output path given by the caller (line by line).
C28_BothPathsWriteTheSame ==
    Succeeded =>
        /\ WrittenFile = ExpectedFile
        /\ result.modifications_made = Modifications(InputBefore, loc.positioning_heights)

\* ---- C29
\* the second rewrite, the file the first rewrite has written (the file the second
\* one was given) and its lines
Rewritten == text.again # None
SecondRewrite == text.again[1]
FirstOutput == SecondRewrite.file
OutputLines == ReadLines(FirstOutput)
CuttingCommandLeft ==
    \E i \in DOMAIN OutputLines : m3_pattern(strip(OutputLines[i])) # None

\* C29 as stated: the file a successful rewrite has written holds no cutting command
\* at a height of the set used, and rewriting it again at the same heights succeeds,
\* modifies no line and writes the file again under one more header block
C29_SecondRewriteOnlyAddsHeader ==
    Rewritten =>
        /\ \A i \in DOMAIN OutputLines : ~ConvertsText(OutputLines[i], text.heights)
        /\ SecondRewrite.success
        /\ SecondRewrite.modifications = 0
        /\ SecondRewrite.written = FirstOutput

\* C29: the file a successful rewrite has written holds no cutting command at a
\* height of the set used; rewriting it again at the same heights raises nothing and
\* modifies no line; it writes the file again, unchanged, under one more header
\* block when a cutting command is left in it, and otherwise returns the error
\* "No M3 commands found in file" and writes nothing
C29_SecondRewriteAddsHeaderOrRefuses ==
    Rewritten =>
        /\ \A i \in DOMAIN OutputLines : ~ConvertsText(OutputLines[i], text.heights)
        /\ SecondRewrite.raised = ""
        /\ SecondRewrite.modifications = 0
        /\ IF CuttingCommandLeft
           THEN /\ SecondRewrite.success
                /\ SecondRewrite.heights = text.heights
                /\ SecondRewrite.written = FirstOutput
           ELSE /\ ~SecondRewrite.success
                /\ SecondRewrite.error = "No M3 commands found in file"
                /\ SecondRewrite.written = <<>>

\* a rewrite that converted a line and left a cutting command, rewritten again
C29_Witness ==
    /\ Rewritten
    /\ text.modifications > 0
    /\ CuttingCommandLeft
    /\ SecondRewrite.success

\* ---- C30
\* the result of a successful rewrite and its conversion statistics
RewriteReported == text.stage = "processed" /\ text.success /\ text.report # None
RewriteReport == Val(text.report)
ReportedStats == Val(RewriteReport.conversion_stats)
SetOf(hs) == {hs[i] : i \in DOMAIN hs}
ConvertedLines ==
    {i \in DOMAIN ReadLines(text.file) : ConvertsText(ReadLines(text.file)[i], text.heights)}

\* C30: the report of every successful rewrite describes the rewrite performed:
\* conversion_stats.positioning_commands is modifications_made, the number of lines
\* converted, and conversion_stats.heights_to_convert is the set of heights used,
\* whether the heights were detected or supplied by the caller
C30_ReportDescribesRewrite ==
    RewriteReported =>
        /\ RewriteReport.modifications_made = Cardinality(ConvertedLines)
        /\ SetOf(RewriteReport.positioning_heights) = SetOf(text.heights)
        /\ ReportedStats.positioning_commands = RewriteReport.modifications_made
        /\ SetOf(ReportedStats.heights_to_convert) = SetOf(RewriteReport.positioning_heights)

====
